---- MODULE Spec2Model ----
(***************************************************************************)
(* Model of the campus-commute-tracker pages:                              *)
(*   - src/src/pages/TrackBus.tsx          (live tracking view)            *)
(*   - src/src/pages/StudentDashboard.tsx  (bus selection dashboard)       *)
(*                                                                         *)
(* Both are React function components.  A useState setter records the new  *)
(* value at once (the value the next render will see); effects declared    *)
(* with useEffect run at the commit of a render, in declaration order, and *)
(* only when one of their dependencies differs from the value of the       *)
(* previous commit.  Every `await` of a backend query splits a handler in  *)
(* two steps: the part before the await and the continuation.              *)
(*                                                                         *)
(* A nullable value is the empty tuple <<>> (null) or <<v>>.               *)
(* Coordinates are integers in units of 1e-5 degree, close to (0, 0).      *)
(***************************************************************************)
EXTENDS Integers, Sequences, FiniteSets, TLC

VARIABLES
    \* ---- TrackBus component -------------------------------------------
    mounted,        \* the tracking view is on screen
    busId,          \* route parameter useParams().busId
    busLocation,    \* useState<BusLocation | null>
    stops,          \* useState<Stop[]>
    busInfo,        \* useState<any>
    mapboxToken,    \* useState('')  (TRUE: a non-empty token was typed)
    map,            \* map.current: <<>> or <<[center |-> coords]>>
    busMarker,      \* busMarker.current: <<>> or <<coords>>
    stopMarkers,    \* stop ids of the stop markers added to the map
    rendered,       \* dependency values of the last commit
    sessions,       \* one record per run of the [busId] effect
    \* ---- backend -------------------------------------------------------
    latest,         \* bus_locations: newest row of each bus
    nInserts,       \* rows inserted into bus_locations so far
    \* ---- observation ---------------------------------------------------
    toasts,         \* the toasts the last step raised, in order
    nDelivered,     \* Positions handed to setBusLocation while mounted
    nMarkerUpdates, \* updateBusMarker invocations that reached the map
    nMarkersCreated,\* live bus markers created with new mapboxgl.Marker
    preMap,         \* a Position was delivered while no map was attached
    nNotified,      \* notifications raised so far, for each stop id
    \* ---- StudentDashboard component -------------------------------------
    user,           \* useAuth().user: <<>> or <<student id>>
    buses,          \* useState<BusData[]>: ids of the listed buses
    myBus,          \* useState<BusData | null>: <<>> or <<bus id>>
    loading,        \* useState(true)
    pcBuses,        \* position of loadBuses
    calls,          \* handleSelectBus invocations, in the order they started
    loads,          \* loadMyBus invocations, in the order they started
    assignments,    \* student_buses: bus ids of the rows of this student
    notices,        \* the toasts the last dashboard step raised
    reports         \* the console.error reports of the last dashboard step

trackVars == <<mounted, busId, busLocation, stops, busInfo, mapboxToken, map,
               busMarker, stopMarkers, rendered, sessions, latest, nInserts,
               toasts, nDelivered, nMarkerUpdates, nMarkersCreated, preMap,
               nNotified>>

dashVars == <<user, buses, myBus, loading, pcBuses, calls, loads, assignments,
              notices, reports>>

vars == <<trackVars, dashVars>>

(***************************************************************************)
(* Bounds                                                                  *)
(***************************************************************************)
MaxInserts == 3     \* rows the drivers insert while one bus id is viewed
MaxNavInserts == 2  \* rows the drivers insert when the bus id may change
MaxLoadsInserts == 1 \* rows the drivers insert while the loads run
MaxProxInserts == 1 \* rows the drivers insert in the proximity checks
MaxLingerInserts == 2 \* rows the drivers insert while a bus lingers
MaxSessions == 2    \* runs of the [busId] effect (mount + bus id changes)
MaxCalls == 2       \* handleSelectBus invocations during a run

(***************************************************************************)
(* Backend data                                                            *)
(***************************************************************************)
Buses == {1, 2}

\* bus_routes row of a bus (single()): <<route_id>> or <<>> when none
RouteOf(b) == IF b \in {1, 2} THEN <<b>> ELSE <<>>

Stop(i, n, la, lo, o) ==
    [id |-> i, name |-> n, latitude |-> la, longitude |-> lo, stop_order |-> o]

\* stops of a route, ordered by stop_order ascending
StopsOfRoute(r) ==
    IF r = 1 THEN << Stop(1, "Main Gate", 0, 0, 1),
                     Stop(2, "Library", 0, 4, 2),
                     Stop(3, "Hostel", 90, 0, 3) >>
    ELSE IF r = 2 THEN << Stop(4, "Depot", 40, 40, 1),
                          Stop(5, "Market", 40, 46, 2) >>
    ELSE << >>

\* the ids of the stops table
AllStopIds ==
    UNION { { StopsOfRoute(r)[j].id : j \in 1 .. Len(StopsOfRoute(r)) } :
            r \in {1, 2} }

\* coordinates (latitude, longitude) a driver may report
\* <<0, 1>> is 1.1 m from Main Gate, 3.3 m from Library and 100 m from
\* Hostel; <<0, 7>> is 7.8 m from Main Gate and 3.3 m from Library;
\* <<40, 43>> is 3.3 m from Depot and from Market, far from the others.
LatLons == { <<0, 1>>, <<0, 7>>, <<40, 43>> }

(***************************************************************************)
(* Pure functions of TrackBus.tsx                                          *)
(***************************************************************************)

\* Math.sqrt on the integers: the floor of the square root (binary search)
RECURSIVE SqrtSearch(_, _, _)
SqrtSearch(n, lo, hi) ==
    IF lo >= hi THEN lo
    ELSE LET mid == (lo + hi + 1) \div 2
         IN  IF mid * mid <= n THEN SqrtSearch(n, mid, hi)
                               ELSE SqrtSearch(n, lo, mid - 1)

ISqrt(n) == SqrtSearch(n, 0, 46340)

\* Math.cos(lat * Math.PI / 180) in thousandths, lat in 1e-5 degree: the
\* series 1 - x^2/2, whose second term is lat^2 * 1.52e-14.
CosMilli(lat) == 1000 - ((lat * lat) \div 65000) \div 1000000

\* R * Math.PI / 180 for R = 6371 km, per 1e-5 degree, in millimetres
\* (6371e6 mm * 1.745329e-7 = 1111.95 mm).
MmPerUnit == 1112

\* calculateDistance: haversine distance, here in millimetres.  For the
\* angles of the model (below 0.01 degree) sin x = x and
\* atan2(sqrt a, sqrt(1 - a)) = sqrt a to better than 1e-9, so that
\*   c = sqrt(dLat^2 + cos(lat1) cos(lat2) dLon^2)   and the result is R * c.
calculateDistance(lat1, lon1, lat2, lon2) ==
    LET dLat == lat2 - lat1
        dLon == lon2 - lon1
        h    == dLat * dLat
                + (CosMilli(lat1) * CosMilli(lat2) * dLon * dLon) \div 1000000
    IN  (MmPerUnit * ISqrt(h * 100)) \div 10

\* PROXIMITY_THRESHOLD = 0.005, compared with the kilometre-valued result
\* of calculateDistance: 0.005 km = 5000 mm.
PROXIMITY_THRESHOLD == 5000

\* a toast of the sonner collaborator; stop is 0 when the toast is not about
\* a stop
Toast(k, m, st) == [kind |-> k, msg |-> m, stop |-> st]

\* the number of toasts of ts about stop id
RECURSIVE CountFor(_, _)
CountFor(ts, id) ==
    IF ts = << >> THEN 0
    ELSE (IF Head(ts).stop = id THEN 1 ELSE 0) + CountFor(Tail(ts), id)

NearStop(location, stop) ==
    calculateDistance(location.latitude, location.longitude,
                      stop.latitude, stop.longitude) < PROXIMITY_THRESHOLD

\* (mutant) a loop that stops at the first stop found near
RECURSIVE checkProximityFirstOnly(_, _)
checkProximityFirstOnly(location, stopList) ==
    IF stopList = << >> THEN << >>
    ELSE IF NearStop(location, Head(stopList))
         THEN << Toast("info", "Bus approaching", Head(stopList).id) >>
         ELSE checkProximityFirstOnly(location, Tail(stopList))

\* (mutant) an evaluator that remembers the stops it has notified and
\* notifies each of them once
RECURSIVE checkProximityOnce(_, _)
checkProximityOnce(location, stopList) ==
    IF stopList = << >> THEN << >>
    ELSE LET stop == Head(stopList)
             rest == checkProximityOnce(location, Tail(stopList))
         IN  IF NearStop(location, stop) /\ nNotified[stop.id] = 0
             THEN << Toast("info", "Bus approaching", stop.id) >> \o rest
             ELSE rest

\* checkProximityToStops(location), evaluated against the stop list its
\* closure holds: the toast.info calls it makes, in order
RECURSIVE checkProximityToStops(_, _)
checkProximityToStops(location, stopList) ==
    IF stopList = << >> THEN << >>
    ELSE LET stop == Head(stopList)
             rest == checkProximityToStops(location, Tail(stopList))
         IN  IF NearStop(location, stop)
             THEN << Toast("info", "Bus approaching", stop.id) >> \o rest
             ELSE rest

\* coords of updateBusMarker: [longitude, latitude]
Coords(location) == << location.longitude, location.latitude >>

(***************************************************************************)
(* TrackBus: state helpers                                                 *)
(***************************************************************************)

\* the state of one run of the [busId] effect (lines 38-42): the bus id and
\* the stop list its closures hold, the channel it subscribed, and the
\* position of its three asynchronous loads
NewSession(b, closureStops) ==
    [ bus       |-> b,
      stops     |-> closureStops,
      torn      |-> FALSE,
      channel   |-> TRUE,
      inbox     |-> << >>,
      pcInfo    |-> "await",
      pcStops   |-> "awaitRoute",
      route     |-> 0,
      pcLatest  |-> "sent",
      latestRes |-> << >>,
      latestErr |-> "none" ]

SessionIds == 1 .. Len(sessions)

\* (mutant) a setter that keeps the Position with the newest timestamp
setBusLocationKeepNewest(cur, newLocation) ==
    IF cur # << >> /\ cur[1].timestamp > newLocation.timestamp
    THEN cur
    ELSE << newLocation >>

\* useState setter of busLocation: the value replaces the current one
setBusLocation(cur, newLocation) == << newLocation >>

\* a Position object as the component receives it: the row and the identity
\* of the object (React compares dependencies with Object.is)
PositionObject(row, kind, s) ==
    [ latitude  |-> row.latitude,
      longitude |-> row.longitude,
      timestamp |-> row.timestamp,
      ref       |-> << kind, s >> ]

\* the effects of delivering a Position to the component state
Deliver(p) ==
    /\ busLocation' = IF mounted THEN setBusLocation(busLocation, p)
                                 ELSE busLocation
    /\ nDelivered' = IF mounted THEN nDelivered + 1 ELSE nDelivered
    /\ preMap' = (preMap \/ (mounted /\ map = << >>))

(***************************************************************************)
(* Backend: a driver inserts a row into bus_locations; the realtime feed   *)
(* queues the INSERT event on every channel whose filter is that bus.      *)
(***************************************************************************)
ChannelMatches(sess, b) == sess.channel /\ sess.bus = b

Insert(b, ll) ==
    /\ LET row == [ latitude |-> ll[1], longitude |-> ll[2],
                    timestamp |-> nInserts + 1 ]
       IN  /\ latest' = [latest EXCEPT ![b] = << row >>]
           /\ sessions' = [ s \in SessionIds |->
                              IF ChannelMatches(sessions[s], b)
                              THEN [sessions[s] EXCEPT !.inbox = Append(@, row)]
                              ELSE sessions[s] ]
    /\ nInserts' = nInserts + 1
    /\ toasts' = << >>
    /\ UNCHANGED <<mounted, busId, busLocation, stops, busInfo, mapboxToken,
                   map, busMarker, stopMarkers, rendered, nDelivered,
                   nMarkerUpdates, nMarkersCreated, preMap>>
    /\ UNCHANGED nNotified
    /\ UNCHANGED dashVars

(***************************************************************************)
(* subscribeToLocationUpdates: the postgres_changes callback (127-133)     *)
(***************************************************************************)
LiveEvent(s) ==
    /\ sessions[s].inbox # << >>
    /\ LET newLocation == PositionObject(Head(sessions[s].inbox), "live", s)
           notes == checkProximityToStops(newLocation, sessions[s].stops)
       IN  /\ Deliver(newLocation)
           /\ toasts' = notes
    /\ sessions' = [sessions EXCEPT ![s].inbox = Tail(@)]
    /\ UNCHANGED <<mounted, busId, stops, busInfo, mapboxToken, map, busMarker,
                   stopMarkers, rendered, latest, nInserts, nMarkerUpdates,
                   nMarkersCreated>>
    /\ nNotified' = [id \in AllStopIds |->
                       nNotified[id] + CountFor(toasts', id)]
    /\ UNCHANGED dashVars

(***************************************************************************)
(* loadLatestLocation (145-157): the query runs on the backend at some     *)
(* moment after it was sent, and its continuation runs later still.        *)
(***************************************************************************)
LatestExec(s) ==
    /\ sessions[s].pcLatest = "sent"
    /\ \E ok \in BOOLEAN :
         LET data == IF ok THEN latest[sessions[s].bus] ELSE << >>
             err  == IF ~ok THEN "network"
                     ELSE IF data = << >> THEN "PGRST116" ELSE "none"
         IN  sessions' = [sessions EXCEPT ![s].pcLatest = "read",
                                          ![s].latestRes = data,
                                          ![s].latestErr = err]
    /\ toasts' = << >>
    /\ UNCHANGED <<mounted, busId, busLocation, stops, busInfo, mapboxToken,
                   map, busMarker, stopMarkers, rendered, latest, nInserts,
                   nDelivered, nMarkerUpdates, nMarkersCreated, preMap>>
    /\ UNCHANGED nNotified
    /\ UNCHANGED dashVars

\* (mutant) a continuation that shows the origin when the query found no row
loadLatestLocationOrigin(s) ==
    /\ sessions[s].pcLatest = "read"
    /\ LET data == sessions[s].latestRes
           origin == [latitude |-> 0, longitude |-> 0, timestamp |-> 0]
       IN  IF data # << >>
           THEN Deliver(PositionObject(data[1], "fetch", s))
           ELSE Deliver(PositionObject(origin, "fetch", s))
    /\ toasts' = << >>
    /\ sessions' = [sessions EXCEPT ![s].pcLatest = "done"]
    /\ UNCHANGED <<mounted, busId, stops, busInfo, mapboxToken, map, busMarker,
                   stopMarkers, rendered, latest, nInserts, nMarkerUpdates,
                   nMarkersCreated>>
    /\ UNCHANGED nNotified
    /\ UNCHANGED dashVars

loadLatestLocation(s) ==
    /\ sessions[s].pcLatest = "read"
    /\ LET data == sessions[s].latestRes
       IN  IF data # << >>
           THEN Deliver(PositionObject(data[1], "fetch", s))
           ELSE UNCHANGED <<busLocation, nDelivered, preMap>>
    /\ toasts' = << >>
    /\ sessions' = [sessions EXCEPT ![s].pcLatest = "done"]
    /\ UNCHANGED <<mounted, busId, stops, busInfo, mapboxToken, map, busMarker,
                   stopMarkers, rendered, latest, nInserts, nMarkerUpdates,
                   nMarkersCreated>>
    /\ UNCHANGED nNotified
    /\ UNCHANGED dashVars

(***************************************************************************)
(* loadBusInfo (71-84), continuation of the buses query                    *)
(***************************************************************************)
\* (mutant) a metadata failure that ends the session: the channel is
\* removed and the queued events are dropped
loadBusInfoFatal(s) ==
    /\ sessions[s].pcInfo = "await"
    /\ \E ok \in BOOLEAN :
         IF ~ok
         THEN /\ toasts' = << Toast("error",
                                       "Failed to load bus information", 0) >>
              /\ UNCHANGED busInfo
              /\ sessions' = [sessions EXCEPT ![s].pcInfo = "failed",
                                              ![s].channel = FALSE,
                                              ![s].inbox = << >>]
         ELSE /\ toasts' = << >>
              /\ busInfo' = IF mounted
                            THEN << [id |-> sessions[s].bus] >>
                            ELSE busInfo
              /\ sessions' = [sessions EXCEPT ![s].pcInfo = "done"]
    /\ UNCHANGED <<mounted, busId, busLocation, stops, mapboxToken, map,
                   busMarker, stopMarkers, rendered, latest, nInserts,
                   nDelivered, nMarkerUpdates, nMarkersCreated, preMap>>
    /\ UNCHANGED nNotified
    /\ UNCHANGED dashVars

loadBusInfo(s) ==
    /\ sessions[s].pcInfo = "await"
    /\ \E ok \in BOOLEAN :
         IF ~ok
         THEN /\ toasts' = << Toast("error",
                                       "Failed to load bus information", 0) >>
              /\ UNCHANGED busInfo
              /\ sessions' = [sessions EXCEPT ![s].pcInfo = "failed"]
         ELSE /\ toasts' = << >>
              /\ busInfo' = IF mounted
                            THEN << [id |-> sessions[s].bus] >>
                            ELSE busInfo
              /\ sessions' = [sessions EXCEPT ![s].pcInfo = "done"]
    /\ UNCHANGED <<mounted, busId, busLocation, stops, mapboxToken, map,
                   busMarker, stopMarkers, rendered, latest, nInserts,
                   nDelivered, nMarkerUpdates, nMarkersCreated, preMap>>
    /\ UNCHANGED nNotified
    /\ UNCHANGED dashVars

(***************************************************************************)
(* loadStops (86-114): continuation of the bus_routes query, then of the   *)
(* stops query                                                             *)
(***************************************************************************)
loadStopsRoute(s) ==
    /\ sessions[s].pcStops = "awaitRoute"
    /\ \E ok \in BOOLEAN :
         LET busRoute == IF ok THEN RouteOf(sessions[s].bus) ELSE << >>
         IN  /\ sessions' =
                   IF busRoute = << >>
                   THEN [sessions EXCEPT ![s].pcStops =
                                           IF ok THEN "done" ELSE "failed"]
                   ELSE [sessions EXCEPT ![s].pcStops = "awaitStops",
                                         ![s].route = busRoute[1]]
             /\ toasts' = << >>
    /\ UNCHANGED <<mounted, busId, busLocation, stops, busInfo, mapboxToken,
                   map, busMarker, stopMarkers, rendered, latest, nInserts,
                   nDelivered, nMarkerUpdates, nMarkersCreated, preMap>>
    /\ UNCHANGED nNotified
    /\ UNCHANGED dashVars

RECURSIVE StopIds(_)
StopIds(stopList) ==
    IF stopList = << >> THEN << >>
    ELSE << Head(stopList).id >> \o StopIds(Tail(stopList))

loadStops(s) ==
    /\ sessions[s].pcStops = "awaitStops"
    /\ \E ok \in BOOLEAN :
         LET stopsData == IF ok THEN << StopsOfRoute(sessions[s].route) >>
                                ELSE << >>
         IN  /\ IF stopsData # << >>
                THEN /\ stops' = IF mounted THEN stopsData[1] ELSE stops
                     /\ stopMarkers' =
                          IF map # << >>
                          THEN stopMarkers \o StopIds(stopsData[1])
                          ELSE stopMarkers
                ELSE UNCHANGED <<stops, stopMarkers>>
             /\ toasts' = << >>
             /\ sessions' = [sessions EXCEPT ![s].pcStops =
                                               IF ok THEN "done" ELSE "failed"]
    /\ UNCHANGED <<mounted, busId, busLocation, busInfo, mapboxToken, map,
                   busMarker, rendered, latest, nInserts, nDelivered,
                   nMarkerUpdates, nMarkersCreated, preMap>>
    /\ UNCHANGED nNotified
    /\ UNCHANGED dashVars

(***************************************************************************)
(* TrackBus: user events                                                   *)
(***************************************************************************)

\* the route parameter changes (navigation to /track/<b>)
ChangeBus(b) ==
    /\ mounted
    /\ b # busId
    /\ Len(sessions) < MaxSessions
    /\ busId' = b
    /\ toasts' = << >>
    /\ UNCHANGED <<mounted, busLocation, stops, busInfo, mapboxToken, map,
                   busMarker, stopMarkers, rendered, sessions, latest,
                   nInserts, nDelivered, nMarkerUpdates, nMarkersCreated,
                   preMap>>
    /\ UNCHANGED nNotified
    /\ UNCHANGED dashVars

\* onChange of the token input (line 253); the input is shown only while
\* the token is empty (line 229)
EnterToken ==
    /\ mounted
    /\ ~mapboxToken
    /\ mapboxToken' = TRUE
    /\ toasts' = << >>
    /\ UNCHANGED <<mounted, busId, busLocation, stops, busInfo, map, busMarker,
                   stopMarkers, rendered, sessions, latest, nInserts,
                   nDelivered, nMarkerUpdates, nMarkersCreated, preMap>>
    /\ UNCHANGED nNotified
    /\ UNCHANGED dashVars

\* What ends a run of the [busId] effect does to it.  The effect (38-42)
\* calls subscribeToLocationUpdates() and drops the function it returns
\* (140-142), so React has no cleanup to run: the channel stays subscribed
\* and the loads in flight stay in flight.
TearDown(sess) == [sess EXCEPT !.torn = TRUE]

\* the view is left (navigate(-1), line 216): the component unmounts
Leave ==
    /\ mounted
    /\ mounted' = FALSE
    /\ sessions' = [s \in SessionIds |-> TearDown(sessions[s])]
    /\ toasts' = << >>
    /\ UNCHANGED <<busId, busLocation, stops, busInfo, mapboxToken, map,
                   busMarker, stopMarkers, rendered, latest, nInserts,
                   nDelivered, nMarkerUpdates, nMarkersCreated, preMap>>
    /\ UNCHANGED nNotified
    /\ UNCHANGED dashVars

(***************************************************************************)
(* TrackBus: a render and the commit of its effects (lines 38-54)          *)
(***************************************************************************)
Deps == [busId |-> busId, mapboxToken |-> mapboxToken,
         busLocation |-> busLocation]

BusIdEffectRuns == rendered.busId # busId
TokenEffectRuns == rendered.mapboxToken # mapboxToken
\* (mutant) the [busLocation] effect declared without its dependency array
LocationEffectAlways == TRUE

LocationEffectRuns == rendered.busLocation # busLocation

\* initializeMap (56-69): center [78.4867, 17.3850], zoom 12
initializeMap == << [center |-> <<7848670, 1738500>>, zoom |-> 12] >>

\* effect [mapboxToken] (44-48); mapContainer.current is set while mounted
MapAfterTokenEffect ==
    IF TokenEffectRuns /\ mapboxToken /\ mounted /\ map = << >>
    THEN initializeMap
    ELSE map

\* effect [busLocation] (50-54): its condition, evaluated after the
\* [mapboxToken] effect of the same commit
MarkerEffectRuns ==
    LocationEffectRuns /\ MapAfterTokenEffect # << >> /\ busLocation # << >>

\* (mutant) an updateBusMarker that adds a new marker on every call
updateBusMarkerAlwaysNew(location) ==
    /\ busMarker' = << Coords(location) >>
    /\ nMarkersCreated' = nMarkersCreated + 1
    /\ map' = << [center |-> Coords(location), zoom |-> 14] >>
    /\ nMarkerUpdates' = nMarkerUpdates + 1

\* updateBusMarker (159-179) on an attached map: the marker is moved, or
\* created when there is none, and the view flies to the coordinates
updateBusMarker(location) ==
    /\ busMarker' = << Coords(location) >>
    /\ nMarkersCreated' = IF busMarker = << >> THEN nMarkersCreated + 1
                                               ELSE nMarkersCreated
    /\ map' = << [center |-> Coords(location), zoom |-> 14] >>
    /\ nMarkerUpdates' = nMarkerUpdates + 1

Render ==
    /\ mounted
    /\ Deps # rendered
    /\ sessions' =
         IF BusIdEffectRuns
         THEN Append([s \in SessionIds |-> TearDown(sessions[s])],
                     NewSession(busId, stops))
         ELSE sessions
    /\ IF MarkerEffectRuns
       THEN updateBusMarker(busLocation[1])
       ELSE /\ map' = MapAfterTokenEffect
            /\ UNCHANGED <<busMarker, nMarkersCreated, nMarkerUpdates>>
    /\ rendered' = Deps
    /\ toasts' = << >>
    /\ UNCHANGED <<mounted, busId, busLocation, stops, busInfo, mapboxToken,
                   stopMarkers, latest, nInserts, nDelivered, preMap>>
    /\ UNCHANGED nNotified
    /\ UNCHANGED dashVars

(***************************************************************************)
(* StudentDashboard.tsx                                                    *)
(***************************************************************************)

\* .single() on the student_buses rows of the student (lines 48-52): the
\* row when there is exactly one, else no data and error code PGRST116
SingleRow(rows) ==
    IF Cardinality(rows) = 1
    THEN [data |-> << CHOOSE b \in rows : TRUE >>, code |-> "none"]
    ELSE [data |-> << >>, code |-> "PGRST116"]

\* a loadMyBus invocation whose query has been sent
NewLoad == [pc |-> "sent", data |-> << >>, code |-> "none"]

\* loadBuses (30-43), continuation of the buses query
loadBuses ==
    /\ pcBuses = "await"
    /\ \E ok \in BOOLEAN :
         IF ~ok
         THEN /\ notices' = << Toast("error", "Failed to load buses", 0) >>
              /\ pcBuses' = "failed"
              /\ UNCHANGED <<buses, loading>>
         ELSE /\ buses' = Buses
              /\ loading' = FALSE
              /\ pcBuses' = "done"
              /\ notices' = << >>
    /\ reports' = << >>
    /\ UNCHANGED <<user, myBus, calls, loads, assignments>>
    /\ UNCHANGED trackVars

\* the student_buses query of a loadMyBus invocation runs on the backend
MyBusExec(i) ==
    /\ loads[i].pc = "sent"
    /\ \E ok \in BOOLEAN :
         LET res == IF ok THEN SingleRow(assignments)
                          ELSE [data |-> << >>, code |-> "other"]
         IN  loads' = [loads EXCEPT ![i] = [pc |-> "read", data |-> res.data,
                                            code |-> res.code]]
    /\ notices' = << >>
    /\ reports' = << >>
    /\ UNCHANGED <<user, buses, myBus, loading, pcBuses, calls, assignments>>
    /\ UNCHANGED trackVars

\* (mutant) loadMyBus reporting every error, the no-row result included
IsFetchFailureAnyError(code) == code # "none"

\* error && error.code !== 'PGRST116' (line 54)
IsFetchFailure(code) == code # "none" /\ code # "PGRST116"

\* loadMyBus (45-62), continuation of the query
loadMyBus(i) ==
    /\ loads[i].pc = "read"
    /\ IF IsFetchFailure(loads[i].code)
       THEN /\ reports' = << "Error loading student bus:" >>
            /\ UNCHANGED myBus
       ELSE /\ reports' = << >>
            /\ myBus' = IF loads[i].data # << >> THEN loads[i].data ELSE myBus
    /\ loads' = [loads EXCEPT ![i].pc = "done"]
    /\ notices' = << >>
    /\ UNCHANGED <<user, buses, loading, pcBuses, calls, assignments>>
    /\ UNCHANGED trackVars

\* a handleSelectBus invocation is writing while it awaits its delete or
\* its insert
InWrite(call) == call.pc \in {"awaitDelete", "awaitInsert"}

\* handleSelectBus (64-71): a click on the button of bus b, which is shown
\* once the list is loaded and is disabled for the bus shown as My Bus
\* (lines 98, 162-178).  `alone` records that no other invocation was
\* writing while this one was.
handleSelectBus(b) ==
    /\ user # << >>
    /\ ~loading
    /\ b \in buses
    /\ myBus # << b >>
    /\ Len(calls) < MaxCalls
    /\ LET busy == \E c \in 1 .. Len(calls) : InWrite(calls[c])
       IN  calls' = Append([c \in 1 .. Len(calls) |->
                              IF InWrite(calls[c])
                              THEN [calls[c] EXCEPT !.alone = FALSE]
                              ELSE calls[c]],
                           [bus |-> b, pc |-> "awaitDelete", delOk |-> FALSE,
                            alone |-> ~busy])
    /\ notices' = << >>
    /\ reports' = << >>
    /\ UNCHANGED <<user, buses, myBus, loading, pcBuses, loads, assignments>>
    /\ UNCHANGED trackVars

\* (mutant) a delete that removes nothing
DeleteNothing(rows, ok) == rows

\* delete().eq('student_id', user.id) (68-71): every row of the student
DeleteRows(rows, ok) == IF ok THEN {} ELSE rows

\* insert({student_id, bus_id}) (74-76): refused by the backend, or by
\* UNIQUE(student_id, bus_id) when the row exists
InsertAccepted(rows, b, ok) == ok /\ b \notin rows

\* handleSelectBus after the await of the delete: its outcome is not read
afterDelete(c) ==
    /\ calls[c].pc = "awaitDelete"
    /\ \E ok \in BOOLEAN :
         /\ assignments' = DeleteRows(assignments, ok)
         /\ calls' = [calls EXCEPT ![c].pc = "awaitInsert", ![c].delOk = ok]
    /\ notices' = << >>
    /\ reports' = << >>
    /\ UNCHANGED <<user, buses, myBus, loading, pcBuses, loads>>
    /\ UNCHANGED trackVars

\* handleSelectBus after the await of the insert (78-84)
afterInsert(c) ==
    /\ calls[c].pc = "awaitInsert"
    /\ \E ok \in BOOLEAN :
         IF InsertAccepted(assignments, calls[c].bus, ok)
         THEN /\ assignments' = assignments \cup {calls[c].bus}
              /\ notices' = << Toast("success", "Bus selected successfully",
                                     0) >>
              /\ loads' = Append(loads, NewLoad)
              /\ calls' = [calls EXCEPT ![c].pc = "done"]
         ELSE /\ notices' = << Toast("error", "Failed to select bus", 0) >>
              /\ calls' = [calls EXCEPT ![c].pc = "failed"]
              /\ UNCHANGED <<assignments, loads>>
    /\ reports' = << >>
    /\ UNCHANGED <<user, buses, myBus, loading, pcBuses>>
    /\ UNCHANGED trackVars

(***************************************************************************)
(* Specification of the tracking view                                      *)
(***************************************************************************)
StoredRow == [latitude |-> 0, longitude |-> 1, timestamp |-> 0]

\* the dashboard is not on screen
DashboardAway ==
    /\ user = << 1 >>
    /\ buses = {}
    /\ myBus = << >>
    /\ loading = TRUE
    /\ pcBuses = "away"
    /\ calls = << >>
    /\ loads = << >>
    /\ assignments = {}
    /\ notices = << >>
    /\ reports = << >>

\* the tracking view is not on screen
TrackingAway ==
    /\ mounted = FALSE
    /\ busId = 1
    /\ busLocation = << >>
    /\ stops = << >>
    /\ busInfo = << >>
    /\ mapboxToken = FALSE
    /\ map = << >>
    /\ busMarker = << >>
    /\ stopMarkers = << >>
    /\ rendered = [busId |-> 1, mapboxToken |-> FALSE, busLocation |-> << >>]
    /\ sessions = << >>
    /\ latest = [b \in Buses |-> << >>]
    /\ nInserts = 0
    /\ toasts = << >>
    /\ nDelivered = 0
    /\ nMarkerUpdates = 0
    /\ nMarkersCreated = 0
    /\ preMap = FALSE
    /\ nNotified = [id \in AllStopIds |-> 0]

\* the state after the first commit of TrackBus: the [busId] effect has run
\* once with the initial state (stops = []), nothing has answered yet
Init ==
    /\ mounted = TRUE
    /\ busId = 1
    /\ busLocation = << >>
    /\ stops = << >>
    /\ busInfo = << >>
    /\ mapboxToken = FALSE
    /\ map = << >>
    /\ busMarker = << >>
    /\ stopMarkers = << >>
    /\ rendered = [busId |-> busId, mapboxToken |-> FALSE,
                   busLocation |-> << >>]
    /\ sessions = << NewSession(busId, << >>) >>
    /\ \E stored \in { << >>, << StoredRow >> } :
         latest = [b \in Buses |-> stored]
    /\ nInserts = 0
    /\ toasts = << >>
    /\ nDelivered = 0
    /\ nMarkerUpdates = 0
    /\ nMarkersCreated = 0
    /\ preMap = FALSE
    /\ nNotified = [id \in AllStopIds |-> 0]
    /\ DashboardAway

\* One bus id is viewed from mount to leave: the feed, the live callback,
\* the eager fetch, the commits and the user events.  loadBusInfo and
\* loadStops are left to the specifications below: they read and write none
\* of busLocation, map, busMarker, the inboxes and the fetch state.
Next ==
    \/ \E b \in Buses, ll \in LatLons : nInserts < MaxInserts /\ Insert(b, ll)
    \/ \E s \in SessionIds : LiveEvent(s)
    \/ \E s \in SessionIds : LatestExec(s)
    \/ \E s \in SessionIds : loadLatestLocation(s)
    \/ EnterToken
    \/ Leave
    \/ Render

Spec == Init /\ [][Next]_vars

\* The same with a navigation from one bus id to another
NextNav ==
    \/ \E b \in Buses, ll \in LatLons :
         nInserts < MaxNavInserts /\ Insert(b, ll)
    \/ \E s \in SessionIds : LiveEvent(s)
    \/ \E s \in SessionIds : LatestExec(s)
    \/ \E s \in SessionIds : loadLatestLocation(s)
    \/ \E b \in Buses : ChangeBus(b)
    \/ EnterToken
    \/ Leave
    \/ Render

SpecNav == Init /\ [][NextNav]_vars

\* One bus id is viewed, with its three loads
NextLoads ==
    \/ \E b \in Buses, ll \in LatLons :
         nInserts < MaxLoadsInserts /\ Insert(b, ll)
    \/ \E s \in SessionIds : LiveEvent(s)
    \/ \E s \in SessionIds : LatestExec(s)
    \/ \E s \in SessionIds : loadLatestLocation(s)
    \/ \E s \in SessionIds : loadBusInfo(s)
    \/ \E s \in SessionIds : loadStopsRoute(s)
    \/ \E s \in SessionIds : loadStops(s)
    \/ EnterToken
    \/ Leave
    \/ Render

SpecLoads == Init /\ [][NextLoads]_vars

\* The proximity checks: the stops loads, the navigation that makes a later
\* run of the [busId] effect close over a loaded stop list, and the feed
NextProx ==
    \/ \E b \in Buses, ll \in LatLons :
         nInserts < MaxProxInserts /\ Insert(b, ll)
    \/ \E s \in SessionIds : LiveEvent(s)
    \/ \E s \in SessionIds : loadStopsRoute(s)
    \/ \E s \in SessionIds : loadStops(s)
    \/ \E b \in Buses : ChangeBus(b)
    \/ Render

SpecProx == Init /\ [][NextProx]_vars

\* Both delivery paths of a session together with the stops loads and a
\* navigation: the eager fetch and the live callback of a run of the
\* [busId] effect whose closures hold a loaded stop list
NextBoth ==
    \/ \E b \in Buses, ll \in LatLons :
         nInserts < MaxProxInserts /\ Insert(b, ll)
    \/ \E s \in SessionIds : LiveEvent(s)
    \/ \E s \in SessionIds : LatestExec(s)
    \/ \E s \in SessionIds : loadLatestLocation(s)
    \/ \E s \in SessionIds : loadStopsRoute(s)
    \/ \E s \in SessionIds : loadStops(s)
    \/ \E b \in Buses : ChangeBus(b)
    \/ Render

SpecBoth == Init /\ [][NextBoth]_vars

\* A bus lingers near a stop: the proximity checks with several Positions
\* reported one after the other
NextLinger ==
    \/ \E b \in Buses, ll \in LatLons :
         nInserts < MaxLingerInserts /\ Insert(b, ll)
    \/ \E s \in SessionIds : LiveEvent(s)
    \/ \E s \in SessionIds : loadStopsRoute(s)
    \/ \E s \in SessionIds : loadStops(s)
    \/ \E b \in Buses : ChangeBus(b)
    \/ Render

SpecLinger == Init /\ [][NextLinger]_vars

(***************************************************************************)
(* Specification of the dashboard                                          *)
(***************************************************************************)

\* the state after the first commit of StudentDashboard: the [user] effect
\* (25-28) has called loadBuses and loadMyBus, which returns at once when
\* there is no user; the student has at most one assignment row
InitDash ==
    /\ TrackingAway
    /\ user \in { << >>, << 1 >> }
    /\ buses = {}
    /\ myBus = << >>
    /\ loading = TRUE
    /\ pcBuses = "await"
    /\ calls = << >>
    /\ loads = IF user = << >> THEN << >> ELSE << NewLoad >>
    /\ assignments \in { {}, {1} }
    /\ notices = << >>
    /\ reports = << >>

NextDash ==
    \/ loadBuses
    \/ \E i \in 1 .. Len(loads) : MyBusExec(i)
    \/ \E i \in 1 .. Len(loads) : loadMyBus(i)
    \/ \E b \in Buses : handleSelectBus(b)
    \/ \E c \in 1 .. Len(calls) : afterDelete(c)
    \/ \E c \in 1 .. Len(calls) : afterInsert(c)

SpecDash == InitDash /\ [][NextDash]_vars

(***************************************************************************)
(* Steps, recognised by what they consume                                  *)
(***************************************************************************)

\* the live callback of session s runs: it takes the head of its inbox
LiveStep(s) ==
    /\ sessions[s].inbox # << >>
    /\ sessions'[s].inbox = Tail(sessions[s].inbox)

\* the continuation of the eager fetch of session s runs
FetchStep(s) ==
    /\ sessions[s].pcLatest = "read"
    /\ sessions'[s].pcLatest = "done"

\* a commit
RenderStep == rendered' # rendered

(***************************************************************************)
(* C1: after every delivery of a Position to a mounted view (live insert   *)
(* event or result of the eager fetch) the current Position is the         *)
(* Position just delivered, whatever was held before.                      *)
(***************************************************************************)
C1_CurrentIsLastDelivered ==
    [][ \A s \in SessionIds :
          mounted =>
            /\ LiveStep(s) =>
                 busLocation' =
                   << PositionObject(Head(sessions[s].inbox), "live", s) >>
            /\ (FetchStep(s) /\ sessions[s].latestRes # << >>) =>
                 busLocation' =
                   << PositionObject(sessions[s].latestRes[1], "fetch", s) >>
      ]_vars

\* three Positions P1, P2, P3 were inserted and delivered in that order and
\* the current one is P3
C1_Witness ==
    /\ mounted
    /\ nDelivered = 3
    /\ busLocation # << >>
    /\ busLocation[1].timestamp = 3
    /\ busLocation[1].ref = << "live", 1 >>

C3_NoAssignmentAfterTeardown ==
    [][ \A s \in SessionIds :
          (sessions[s].torn /\ (FetchStep(s) \/ LiveStep(s)))
              => busLocation' = busLocation
      ]_vars

(***************************************************************************)
(* C4 (as stated): a torn-down session has no channel any more, and its    *)
(* live callback never runs again.                                         *)
(***************************************************************************)
C4_UnsubscribedAtTeardown ==
    [][ /\ \A s \in DOMAIN sessions' :
             sessions'[s].torn => ~sessions'[s].channel
        /\ \A s \in SessionIds : sessions[s].torn => ~LiveStep(s)
      ]_vars

(***************************************************************************)
(* C5: every run of the proximity evaluator raises exactly one             *)
(* notification for each stop of its stop list that is strictly closer     *)
(* than the threshold to the Position, none for any other stop, and raises *)
(* them in the order of the stop list.                                     *)
(***************************************************************************)
\* the position in stopList of the stop with this id
IndexOf(stopList, id) ==
    CHOOSE i \in 1 .. Len(stopList) : stopList[i].id = id

EvaluatedRight(location, stopList, ts) ==
    /\ \A i \in 1 .. Len(stopList) :
         CountFor(ts, stopList[i].id) =
           IF calculateDistance(location.latitude, location.longitude,
                                stopList[i].latitude, stopList[i].longitude)
                < PROXIMITY_THRESHOLD
           THEN 1 ELSE 0
    /\ \A j \in 1 .. Len(ts) :
         /\ ts[j].kind = "info"
         /\ \E i \in 1 .. Len(stopList) : stopList[i].id = ts[j].stop
    /\ \A j, k \in 1 .. Len(ts) :
         j < k => IndexOf(stopList, ts[j].stop) < IndexOf(stopList, ts[k].stop)

C5_OneNotificationPerNearStop ==
    [][ \A s \in SessionIds :
          LiveStep(s) =>
            EvaluatedRight(Head(sessions[s].inbox), sessions[s].stops, toasts')
      ]_vars

\* the evaluator has just run against a list of three stops and raised
\* exactly one notification, for the one stop that is near
C5_Witness ==
    /\ Len(sessions) = 2
    /\ Len(sessions[2].stops) = 3
    /\ Len(toasts) = 1
    /\ toasts[1].stop = 2
    /\ busLocation # << >>
    /\ << busLocation[1].latitude, busLocation[1].longitude >> = << 0, 7 >>

(***************************************************************************)
(* C9 (as stated): when the bus metadata query, one of the stops queries   *)
(* or the latest-position query fails, the step that handles the failure   *)
(* raises an error toast and leaves the data of that query as it was.      *)
(***************************************************************************)
HasErrorToast(ts) == \E j \in 1 .. Len(ts) : ts[j].kind = "error"

C9_EveryFailedQueryIsNoticed ==
    [][ \A s \in SessionIds :
          /\ (sessions[s].pcInfo = "await" /\ sessions'[s].pcInfo = "failed")
               => (HasErrorToast(toasts') /\ busInfo' = busInfo)
          /\ (sessions[s].pcStops \in {"awaitRoute", "awaitStops"}
                /\ sessions'[s].pcStops = "failed")
               => (HasErrorToast(toasts') /\ stops' = stops)
          /\ (FetchStep(s) /\ sessions[s].latestErr = "network")
               => (HasErrorToast(toasts') /\ busLocation' = busLocation)
      ]_vars

(***************************************************************************)
(* C6: when the last two handleSelectBus invocations of the student ran    *)
(* one after the other, for different buses, each with its delete and its  *)
(* insert succeeding, the student has exactly one assignment row and it    *)
(* references the second bus.                                              *)
(***************************************************************************)
Succeeded(call) == call.alone /\ call.delOk /\ call.pc = "done"

C6_SecondSelectionReplacesFirst ==
    \A i \in 1 .. Len(calls) - 1 :
        ( /\ i + 1 = Len(calls)
          /\ Succeeded(calls[i])
          /\ Succeeded(calls[i + 1])
          /\ calls[i].bus # calls[i + 1].bus )
        => assignments = { calls[i + 1].bus }

\* two such invocations have completed, starting from a stored assignment
C6_Witness ==
    /\ Len(calls) = 2
    /\ Succeeded(calls[1])
    /\ Succeeded(calls[2])
    /\ calls[1].bus = 2
    /\ calls[2].bus = 1
    /\ assignments = {1}

(***************************************************************************)
(* C7 (as stated): the student has at most one assignment row in every     *)
(* reachable state.                                                        *)
(***************************************************************************)
C7_AtMostOneAssignment == Cardinality(assignments) <= 1

(***************************************************************************)
(* C8 (as stated): a handleSelectBus invocation whose delete or insert     *)
(* failed ends with an error toast and without a success toast, and an     *)
(* invocation that has ended issues nothing more.                          *)
(***************************************************************************)
HasSuccessToast(ts) == \E j \in 1 .. Len(ts) : ts[j].kind = "success"

C8_FailedWriteIsNoticed ==
    [][ \A c \in 1 .. Len(calls) :
          /\ ( /\ calls[c].pc = "awaitInsert"
               /\ calls'[c].pc \in {"done", "failed"}
               /\ (~calls[c].delOk \/ calls'[c].pc = "failed") )
             => (HasErrorToast(notices') /\ ~HasSuccessToast(notices'))
          /\ calls[c].pc \in {"done", "failed"}
             => calls'[c].pc = calls[c].pc
      ]_vars

(***************************************************************************)
(* C10: the continuation of loadMyBus treats the no-row result (PGRST116)  *)
(* as expected: it raises no toast and reports no error; any other error   *)
(* is reported with console.error and leaves My Bus as it was.             *)
(***************************************************************************)
LoadStep(i) == loads[i].pc = "read" /\ loads'[i].pc = "done"

C10_NoRowIsNotAFailure ==
    [][ \A i \in 1 .. Len(loads) :
          LoadStep(i) =>
            /\ loads[i].code = "PGRST116"
                 => (notices' = << >> /\ reports' = << >>)
            /\ loads[i].code = "other"
                 => (reports' # << >> /\ myBus' = myBus)
      ]_vars

\* a loadMyBus of a student without assignment has just completed silently
C10_Witness ==
    /\ assignments = {}
    /\ \E i \in 1 .. Len(loads) :
         loads[i].pc = "done" /\ loads[i].code = "PGRST116"
    /\ notices = << >>
    /\ reports = << >>
    /\ myBus = << >>

(***************************************************************************)
(* C11 (as stated): the continuation of the eager fetch handles its        *)
(* Position as the live callback would: the current Position is replaced   *)
(* by it and the proximity evaluator runs for it against the stop list of  *)
(* the session, raising the notifications a live event of that Position    *)
(* raises.                                                                 *)
(***************************************************************************)
NotifiedStops(ts) == { ts[j].stop : j \in 1 .. Len(ts) }

NearStopIds(location, stopList) ==
    { stopList[j].id : j \in { k \in 1 .. Len(stopList) :
                                 NearStop(location, stopList[k]) } }

C11_FetchHandledAsLiveEvent ==
    [][ \A s \in SessionIds :
          (mounted /\ FetchStep(s) /\ sessions[s].latestRes # << >>) =>
             LET p == PositionObject(sessions[s].latestRes[1], "fetch", s)
             IN  /\ busLocation' = << p >>
                 /\ NotifiedStops(toasts') = NearStopIds(p, sessions[s].stops)
      ]_vars

(***************************************************************************)
(* C12: when the eager fetch finds no row its continuation delivers        *)
(* nothing: the current Position, the delivery count and the marker are    *)
(* left as they were.  The current Position is null, with no bus marker,   *)
(* as long as nothing was delivered, it leaves null only by a delivery,    *)
(* and the first live event after such a fetch makes its Position the      *)
(* current one.                                                            *)
(***************************************************************************)
NoRowFetched(sess) == sess.latestRes = << >> /\ sess.latestErr = "PGRST116"

C12_NoRowLeavesNoLocation ==
    [][ /\ (nDelivered = 0 => (busLocation = << >> /\ busMarker = << >>))
        /\ \A s \in SessionIds :
             /\ (FetchStep(s) /\ NoRowFetched(sessions[s])) =>
                  /\ busLocation' = busLocation
                  /\ nDelivered' = nDelivered
                  /\ busMarker' = busMarker
             /\ ( /\ mounted
                  /\ sessions[s].pcLatest = "done"
                  /\ NoRowFetched(sessions[s])
                  /\ busLocation = << >>
                  /\ LiveStep(s) ) =>
                  busLocation' =
                    << PositionObject(Head(sessions[s].inbox), "live", s) >>
        /\ (busLocation = << >> /\ busLocation' # << >>) =>
             \E s \in SessionIds :
                 LiveStep(s) \/ (FetchStep(s) /\ sessions[s].latestRes # << >>)
      ]_vars

\* the fetch found no row and completed, then the first live event arrived
C12_Witness ==
    /\ mounted
    /\ sessions[1].pcLatest = "done"
    /\ NoRowFetched(sessions[1])
    /\ nDelivered = 1
    /\ busLocation # << >>
    /\ busLocation[1].ref = << "live", 1 >>
    /\ busLocation[1].timestamp = 1

(***************************************************************************)
(* C13 (as stated): a live Position delivered to a session once the stops  *)
(* of the route are loaded is evaluated against the loaded stops: every    *)
(* loaded stop within the threshold of the Position is notified.           *)
(***************************************************************************)
StopsLoaded(sess) == sess.pcStops = "done" /\ stops # << >>

C13_EvaluatedAgainstLoadedStops ==
    [][ \A s \in SessionIds :
          (mounted /\ ~sessions[s].torn /\ StopsLoaded(sessions[s])
             /\ LiveStep(s)) =>
             LET p == PositionObject(Head(sessions[s].inbox), "live", s)
             IN  NearStopIds(p, stops) \subseteq NotifiedStops(toasts')
      ]_vars

(***************************************************************************)
(* C14 (as stated): once the result of the eager fetch and the first live  *)
(* event of a session have both been processed, in whichever order, the    *)
(* current Position is the more recent of the two, that is the newest row  *)
(* of the bus.                                                             *)
(***************************************************************************)
FetchAndFirstEventProcessed ==
    /\ mounted
    /\ Len(sessions) = 1
    /\ sessions[1].pcLatest = "done"
    /\ sessions[1].latestRes # << >>
    /\ sessions[1].inbox = << >>
    /\ nInserts = 1
    /\ nDelivered = 2

C14_OrderIndependentDelivery ==
    FetchAndFirstEventProcessed =>
        /\ busLocation # << >>
        /\ busLocation[1].timestamp = latest[busId][1].timestamp

(***************************************************************************)
(* C15: a session whose bus-metadata load or stops load has failed keeps   *)
(* its subscription and its eager fetch, started with them by the [busId]  *)
(* effect, and every Position delivered to it while the view is mounted    *)
(* still becomes the current Position.                                     *)
(***************************************************************************)
LoadFailed(sess) == sess.pcInfo = "failed" \/ sess.pcStops = "failed"

C15_FailedLoadsDoNotBlockUpdates ==
    [][ \A s \in SessionIds :
          /\ LoadFailed(sessions'[s]) =>
               /\ sessions'[s].channel
               /\ sessions'[s].pcLatest \in {"sent", "read", "done"}
          /\ (~LoadFailed(sessions[s]) /\ LoadFailed(sessions'[s])) =>
               /\ sessions'[s].inbox = sessions[s].inbox
               /\ sessions'[s].pcLatest = sessions[s].pcLatest
               /\ busLocation' = busLocation
          /\ (mounted /\ LoadFailed(sessions[s]) /\ LiveStep(s)) =>
               busLocation' =
                 << PositionObject(Head(sessions[s].inbox), "live", s) >>
          /\ ( /\ mounted
               /\ LoadFailed(sessions[s])
               /\ FetchStep(s)
               /\ sessions[s].latestRes # << >> ) =>
               busLocation' =
                 << PositionObject(sessions[s].latestRes[1], "fetch", s) >>
      ]_vars

\* both loads have failed and the Positions of the fetch and of a live event
\* have been delivered
C15_Witness ==
    /\ mounted
    /\ sessions[1].pcInfo = "failed"
    /\ sessions[1].pcStops = "failed"
    /\ sessions[1].pcLatest = "done"
    /\ sessions[1].latestRes # << >>
    /\ nDelivered = 2
    /\ busLocation # << >>
    /\ busLocation[1].ref = << "live", 1 >>

(***************************************************************************)
(* C16: at most one live bus marker is ever created.  An updateBusMarker   *)
(* call on an attached map creates the marker when there is none and moves *)
(* the existing one otherwise, in both cases to the coordinates of the     *)
(* Position, and recenters the view on them; while no map is attached the  *)
(* marker does not change.                                                 *)
(***************************************************************************)
MarkerCall == nMarkerUpdates' = nMarkerUpdates + 1

C16_SingleLiveMarker ==
    [][ /\ nMarkersCreated' <= 1
        /\ (busMarker' # << >>) => (nMarkersCreated' = 1 /\ map' # << >>)
        /\ MarkerCall =>
             /\ busMarker' = << Coords(busLocation[1]) >>
             /\ map'[1].center = Coords(busLocation[1])
             /\ nMarkersCreated' =
                  IF busMarker = << >> THEN nMarkersCreated + 1
                                       ELSE nMarkersCreated
        /\ (map' = << >>) =>
             /\ busMarker' = busMarker
             /\ nMarkersCreated' = nMarkersCreated
             /\ nMarkerUpdates' = nMarkerUpdates
      ]_vars

\* the marker was created by one call and moved by a second one
C16_Witness ==
    /\ nMarkerUpdates = 2
    /\ nMarkersCreated = 1
    /\ busLocation # << >>
    /\ busMarker = << Coords(busLocation[1]) >>
    /\ map # << >>
    /\ map[1].center = Coords(busLocation[1])
    /\ busLocation[1].timestamp = 2

(***************************************************************************)
(* C17 (as stated): once the stops load of a session has succeeded every  *)
(* loaded stop has exactly one marker on the attached map, and no step     *)
(* other than the completion of a stops load adds stop markers.            *)
(***************************************************************************)
StopsLoadStep(s) ==
    /\ sessions[s].pcStops = "awaitStops"
    /\ sessions'[s].pcStops = "done"

MarkersOfStop(markers, id) ==
    Cardinality({ j \in 1 .. Len(markers) : markers[j] = id })

C17_StopMarkersPlacedOnce ==
    [][ /\ (mounted /\ map' # << >>) =>
                \A j \in 1 .. Len(stops') :
                    MarkersOfStop(stopMarkers', stops'[j].id) = 1
        /\ (stopMarkers' # stopMarkers) =>
             \E s \in SessionIds : StopsLoadStep(s)
      ]_vars

(***************************************************************************)
(* C18: the proximity evaluator keeps no memory.  Every evaluation of a    *)
(* live Position raises one more notification for each stop of the         *)
(* session's list within the threshold, however many notifications that    *)
(* stop has had before: a bus that stays near a stop is notified again on  *)
(* every Position.                                                         *)
(***************************************************************************)
C18_RepeatsAreNotSuppressed ==
    [][ \A s \in SessionIds :
          LiveStep(s) =>
             LET p == PositionObject(Head(sessions[s].inbox), "live", s)
             IN  \A id \in NearStopIds(p, sessions[s].stops) :
                     /\ nNotified'[id] = nNotified[id] + 1
                     /\ id \in NotifiedStops(toasts')
      ]_vars

\* two Positions were evaluated one after the other, both near the Library,
\* and each raised the notification of the Library
C18_Witness ==
    /\ mounted
    /\ Len(sessions) = 2
    /\ nDelivered = 2
    /\ nNotified[2] = 2
    /\ nNotified[1] = 0
    /\ 2 \in NotifiedStops(toasts)
    /\ busLocation # << >>
    /\ busLocation[1].ref = << "live", 2 >>

(***************************************************************************)
(* C19 (as stated): the evaluation of a live Position notifies a stop of   *)
(* the session's list exactly when the Position is within about 500 metres *)
(* of it (500 m = 500000 mm).                                              *)
(***************************************************************************)
WithinMetres(location, stop, m) ==
    calculateDistance(location.latitude, location.longitude,
                      stop.latitude, stop.longitude) < m * 1000

C19_ThresholdIs500Metres ==
    [][ \A s \in SessionIds :
          LiveStep(s) =>
             LET p == PositionObject(Head(sessions[s].inbox), "live", s)
                 stopList == sessions[s].stops
             IN  \A j \in 1 .. Len(stopList) :
                     WithinMetres(p, stopList[j], 500)
                       <=> stopList[j].id \in NotifiedStops(toasts')
      ]_vars

(***************************************************************************)
(* C20 (as stated): once a commit has run its effects with a map attached  *)
(* and a non-null current Position, the live bus marker stands at the      *)
(* current Position, also when that Position was delivered before the map  *)
(* was attached.                                                           *)
(***************************************************************************)
C20_MarkerFollowsMapAttach ==
    (mounted /\ rendered = Deps /\ map # << >> /\ busLocation # << >>)
        => busMarker = << Coords(busLocation[1]) >>

(***************************************************************************)
(* C21 (as stated): once the view has committed the change of its bus id   *)
(* from A to B, no live event of the subscription created for A and no     *)
(* latest-position fetch started for A sets the current Position.          *)
(***************************************************************************)
ForOtherBus(sess) ==
    /\ rendered.busId = busId
    /\ sess.bus # busId

C21_PositionOfTrackedBus ==
    [][ \A s \in SessionIds :
          ( /\ mounted
            /\ ForOtherBus(sessions[s])
            /\ \/ LiveStep(s)
               \/ FetchStep(s) /\ sessions[s].latestRes # << >> )
          => busLocation' = busLocation
      ]_vars

(***************************************************************************)
(* C22 (as stated): when the last handleSelectBus invocation has ended,    *)
(* having run with no other invocation writing, and every loadMyBus query  *)
(* has been answered by the backend and handled, My Bus is the bus of the  *)
(* student's stored assignment row, and is empty when no row is stored,    *)
(* whether the delete and the insert succeeded or failed.                  *)
(***************************************************************************)
SelectionSettled ==
    /\ calls # << >>
    /\ \A c \in 1 .. Len(calls) : ~InWrite(calls[c])
    /\ calls[Len(calls)].alone
    /\ \A i \in 1 .. Len(loads) :
         loads[i].pc = "done" /\ loads[i].code # "other"

C22_MyBusIsStoredAssignment ==
    SelectionSettled =>
        /\ assignments = {} => myBus = << >>
        /\ \A b \in Buses : assignments = {b} => myBus = << b >>

(***************************************************************************)
(* C23 (as stated): once the continuation of the bus-list query has run,   *)
(* with a result or with an error, the dashboard is out of its loading     *)
(* state.                                                                  *)
(***************************************************************************)
C23_LoadingEnds ==
    pcBuses \in {"done", "failed"} => ~loading

====
